---- MODULE Spec2Model ----
(***************************************************************************)
(* A model of finance_app.py: the Flask handlers over the three SQLite     *)
(* tables (users, financials, comments), the form normaliser (_to_float,   *)
(* _to_int, parse_financial_form_with_unit) and the ratio calculator       *)
(* (calc).                                                                 *)
(*                                                                         *)
(* Text is a sequence of one-character strings, so that strip(), replace() *)
(* and float() are computed character by character.  A Python float is a   *)
(* reduced fraction <<n, d>> with d > 0 (exact arithmetic; the inputs are  *)
(* short decimal literals, and no claim rests on rounding).  The inputs    *)
(* are written over Alphabet, which has no exponent letter, no "inf" and   *)
(* no "nan": on such text float() accepts exactly the decimal literals.    *)
(***************************************************************************)
EXTENDS Integers, Sequences, FiniteSets, TLC

VARIABLES users, session, financials, comments, comment_seq, pc, req, resp,
          calc_in, calc_out

vars == <<users, session, financials, comments, comment_seq, pc, req, resp,
          calc_in, calc_out>>

(***************************************************************************)
(* Text                                                                    *)
(***************************************************************************)
Digits == {"0", "1", "2", "3", "4", "5", "6", "7", "8", "9"}

FullWidthComma == "U+FF0C"

Whitespace == {" ", "\t"}

Alphabet == Digits \cup Whitespace \cup {",", FullWidthComma, ".", "-", "+", "a", "b", "c", "A", "m"}

\* Python's None, distinct from every str
None == <<"None">>

DigitVal(c) ==
  CASE c = "0" -> 0 [] c = "1" -> 1 [] c = "2" -> 2 [] c = "3" -> 3 [] c = "4" -> 4
    [] c = "5" -> 5 [] c = "6" -> 6 [] c = "7" -> 7 [] c = "8" -> 8 [] c = "9" -> 9

RECURSIVE lstrip(_)
lstrip(s) == IF s # <<>> /\ Head(s) \in Whitespace THEN lstrip(Tail(s)) ELSE s

RECURSIVE rstrip(_)
rstrip(s) ==
  IF s # <<>> /\ s[Len(s)] \in Whitespace THEN rstrip(SubSeq(s, 1, Len(s) - 1)) ELSE s

\* str.strip()
strip(s) == rstrip(lstrip(s))

\* str.replace(c, "")
remove(s, c) == SelectSeq(s, LAMBDA x : x # c)

(***************************************************************************)
(* Numbers                                                                 *)
(***************************************************************************)
Abs(n) == IF n < 0 THEN -n ELSE n

RECURSIVE GCD(_, _)
GCD(a, b) == IF b = 0 THEN a ELSE GCD(b, a % b)

\* the float n/d, d # 0, as a reduced fraction with a positive denominator
Frac(n, d) ==
  LET g == GCD(Abs(n), Abs(d))
      s == IF d < 0 THEN -1 ELSE 1
  IN  <<(s * n) \div g, (s * d) \div g>>

Zero == <<0, 1>>

FromInt(n) == <<n, 1>>

RECURSIVE Pow10(_)
Pow10(k) == IF k = 0 THEN 1 ELSE 10 * Pow10(k - 1)

RECURSIVE DigitsVal(_)
DigitsVal(s) == IF s = <<>> THEN 0 ELSE 10 * DigitsVal(SubSeq(s, 1, Len(s) - 1)) + DigitVal(s[Len(s)])

\* x * y of two floats
Mul(x, y) ==
  LET g1 == GCD(Abs(x[1]), y[2])
      g2 == GCD(Abs(y[1]), x[2])
  IN  <<(x[1] \div g1) * (y[1] \div g2), (x[2] \div g2) * (y[2] \div g1)>>

ZeroDivisionError == <<"ZeroDivisionError">>

\* x / y of two floats; Python raises ZeroDivisionError on a zero divisor
TrueDiv(x, y) == IF y[1] = 0 THEN ZeroDivisionError ELSE Frac(x[1] * y[2], x[2] * y[1])

\* bool(x) of a float
Truthy(x) == x[1] # 0

\* int(x) of a float: truncation toward zero
int(x) == IF x[1] >= 0 THEN x[1] \div x[2] ELSE -((-x[1]) \div x[2])

Ok(v) == [ok |-> TRUE, val |-> v]

ValueError == [ok |-> FALSE, err |-> "ValueError"]

\* float(s) of a str: surrounding whitespace is ignored, then an optional
\* sign and a decimal literal with at least one digit; anything else raises
float(s) ==
  LET t      == strip(s)
      signed == t # <<>> /\ t[1] \in {"-", "+"}
      body   == IF signed THEN Tail(t) ELSE t
      dots   == {i \in 1..Len(body) : body[i] = "."}
      wellformed == /\ \A i \in 1..Len(body) : body[i] \in Digits \cup {"."}
                    /\ Cardinality(dots) <= 1
                    /\ Len(body) - Cardinality(dots) >= 1
      ds     == remove(body, ".")
      fracLen == IF dots = {} THEN 0 ELSE Len(body) - (CHOOSE i \in dots : TRUE)
      n      == DigitsVal(ds)
  IN  IF ~wellformed THEN ValueError
      ELSE Ok(Frac(IF signed /\ t[1] = "-" THEN -n ELSE n, Pow10(fracLen)))

\* the cleanup _to_float and _to_int share
clean(v) == remove(remove(remove(strip(v), ","), FullWidthComma), " ")

\* malformed text coerced to zero instead of raising
_to_float_lenient(v) ==
  IF v = None THEN Ok(Zero)
  ELSE LET s == clean(v)
           x == float(s)
       IN  IF s = << >> \/ ~x.ok THEN Ok(Zero) ELSE x

\* the sign dropped from every figure
_to_float_abs(v) ==
  IF v = None THEN Ok(Zero)
  ELSE LET s == clean(v)
           x == float(s)
       IN  IF s = << >> THEN Ok(Zero)
           ELSE IF x.ok THEN Ok(<<Abs(x.val[1]), x.val[2]>>) ELSE ValueError

_to_float(v) ==
  IF v = None THEN Ok(Zero)
  ELSE LET s == clean(v)
       IN  IF s = <<>> THEN Ok(Zero) ELSE float(s)

_to_int(v) ==
  IF v = None THEN Ok(0)
  ELSE LET s == clean(v)
           x == float(s)
       IN  IF s = <<>> THEN Ok(0)
           ELSE IF x.ok THEN Ok(int(x.val)) ELSE ValueError

(***************************************************************************)
(* request.form: a function from the field names a request carries to      *)
(* their text                                                              *)
(***************************************************************************)
MONEY_FIELDS ==
  <<"sales", "gross_profit", "net_income", "total_assets", "equity",
    "current_assets", "current_liabilities", "liabilities">>

MoneyNames == {MONEY_FIELDS[i] : i \in 1..Len(MONEY_FIELDS)}

DerivedNames ==
  {"gross_profit_margin", "roe", "current_ratio", "debt_ratio",
   "sales_per_employee", "productivity"}

\* form.get(k, default)
get(form, k, default) == IF k \in DOMAIN form THEN form[k] ELSE default

\* the multipliers parse_financial_form_with_unit accepts
UNITS == {FromInt(1), FromInt(1000), FromInt(1000000)}

\* the multiplier chosen from the unit field; a unit text float() rejects
\* raises before the membership test is reached
unit_of(form) ==
  LET u == _to_float(get(form, "unit", <<"1">>))
  IN  IF ~u.ok THEN u
      ELSE IF u.val \notin UNITS THEN Ok(FromInt(1)) ELSE u

\* employees scaled by the unit like a magnitude
parse_financial_form_with_unit_scaling_employees(form) ==
  LET unit  == unit_of(form)
      money == [k \in MoneyNames |-> _to_float(get(form, k, None))]
      emp   == _to_int(get(form, "employees", None))
  IN  IF ~unit.ok \/ (\E k \in MoneyNames : ~money[k].ok) \/ ~emp.ok THEN ValueError
      ELSE Ok([k \in MoneyNames |-> Mul(money[k].val, unit.val)]
              @@ [employees |-> emp.val * int(unit.val)])

parse_financial_form_with_unit(form) ==
  LET unit  == unit_of(form)
      money == [k \in MoneyNames |-> _to_float(get(form, k, None))]
      emp   == _to_int(get(form, "employees", None))
  IN  IF ~unit.ok \/ (\E k \in MoneyNames : ~money[k].ok) \/ ~emp.ok THEN ValueError
      ELSE Ok([k \in MoneyNames |-> Mul(money[k].val, unit.val)]
              @@ [employees |-> emp.val])

\* the two per-employee ratios without their zero guard
calc_unguarded(d) ==
  [gross_profit_margin |-> IF Truthy(d["sales"]) THEN TrueDiv(d["gross_profit"], d["sales"]) ELSE Zero,
   roe                 |-> IF Truthy(d["equity"]) THEN TrueDiv(d["net_income"], d["equity"]) ELSE Zero,
   current_ratio       |-> IF Truthy(d["current_liabilities"])
                           THEN TrueDiv(d["current_assets"], d["current_liabilities"]) ELSE Zero,
   debt_ratio          |-> IF Truthy(d["total_assets"]) THEN TrueDiv(d["liabilities"], d["total_assets"]) ELSE Zero,
   sales_per_employee  |-> TrueDiv(d["sales"], FromInt(d["employees"])),
   productivity        |-> TrueDiv(d["net_income"], FromInt(d["employees"]))]

\* d maps the eight magnitudes to floats and employees to an int; the int 0
\* of a guarded ratio is the float 0 once stored in a REAL column
calc(d) ==
  [gross_profit_margin |-> IF Truthy(d["sales"]) THEN TrueDiv(d["gross_profit"], d["sales"]) ELSE Zero,
   roe                 |-> IF Truthy(d["equity"]) THEN TrueDiv(d["net_income"], d["equity"]) ELSE Zero,
   current_ratio       |-> IF Truthy(d["current_liabilities"])
                           THEN TrueDiv(d["current_assets"], d["current_liabilities"]) ELSE Zero,
   debt_ratio          |-> IF Truthy(d["total_assets"]) THEN TrueDiv(d["liabilities"], d["total_assets"]) ELSE Zero,
   sales_per_employee  |-> IF d["employees"] # 0 THEN TrueDiv(d["sales"], FromInt(d["employees"])) ELSE Zero,
   productivity        |-> IF d["employees"] # 0 THEN TrueDiv(d["net_income"], FromInt(d["employees"])) ELSE Zero]

\* the column values a write binds, all but id and user_id
Columns(company_name, industry, year, d) ==
  [company_name |-> company_name, industry |-> industry, year |-> year]
  @@ [k \in MoneyNames \cup {"employees"} \cup DerivedNames |-> d[k]]

\* the descriptive fields, read the same way by index and edit_data
descriptive(f) ==
  LET year == _to_int(get(f, "year", None))
  IN  IF ~year.ok THEN ValueError
      ELSE Ok([company_name |-> strip(get(f, "company_name", <<>>)),
               industry     |-> strip(get(f, "industry", <<>>)),
               year         |-> year.val])

\* index, POST: the values of the INSERT, or the exception raised before it
index_values(f) ==
  LET d    == parse_financial_form_with_unit(f)
      desc == descriptive(f)
  IN  IF ~d.ok \/ ~desc.ok THEN ValueError
      ELSE Ok(Columns(desc.val.company_name, desc.val.industry, desc.val.year,
                      calc(d.val) @@ d.val))

\* the edit path honouring the unit field as the create path does
edit_values_with_unit(f) == index_values(f)

\* a ratio taken from the form when it supplies one
edit_values_trusting_form(f) ==
  LET money == [k \in MoneyNames |-> _to_float(get(f, k, None))]
      emp   == _to_int(get(f, "employees", None))
      desc  == descriptive(f)
      sent  == [k \in DerivedNames \cap DOMAIN f |-> _to_float(f[k])]
  IN  IF (\E k \in MoneyNames : ~money[k].ok) \/ ~emp.ok \/ ~desc.ok
         \/ (\E k \in DOMAIN sent : ~sent[k].ok) THEN ValueError
      ELSE LET d == [k \in MoneyNames |-> money[k].val] @@ [employees |-> emp.val]
           IN  Ok(Columns(desc.val.company_name, desc.val.industry, desc.val.year,
                          [k \in DOMAIN sent |-> sent[k].val] @@ calc(d) @@ d))

\* edit_data, POST: the values of the UPDATE, or the exception raised before it
edit_values(f) ==
  LET money == [k \in MoneyNames |-> _to_float(get(f, k, None))]
      emp   == _to_int(get(f, "employees", None))
      desc  == descriptive(f)
  IN  IF (\E k \in MoneyNames : ~money[k].ok) \/ ~emp.ok \/ ~desc.ok THEN ValueError
      ELSE LET d == [k \in MoneyNames |-> money[k].val] @@ [employees |-> emp.val]
           IN  Ok(Columns(desc.val.company_name, desc.val.industry, desc.val.year,
                          calc(d) @@ d))

(***************************************************************************)
(* The requests the behaviours draw from                                   *)
(***************************************************************************)
Usernames == {"alice", "bob"}

Passwords == {"pw1", "pw2"}

AuthForms(ps) == {[username |-> u, password |-> p] : u \in Usernames, p \in ps}

\* f with field k set to text t
With(f, k, t) == [x \in DOMAIN f \cup {k} |-> IF x = k THEN t ELSE f[x]]

\* f without field k
Without(f, k) == [x \in DOMAIN f \ {k} |-> f[x]]

Restrict(f, ks) == [x \in ks |-> f[x]]

\* the figures of the spec's scenario in thousands, entered with separators,
\* padding and a decimal headcount
BaseForm ==
  [sales               |-> <<" ", "1", ",", "0", "0", "0", " ">>,
   gross_profit        |-> <<"2", "5", "0">>,
   net_income          |-> <<"1", "0", "0">>,
   total_assets        |-> <<"2", FullWidthComma, "0", "0", "0">>,
   equity              |-> <<"5", "0", "0">>,
   current_assets      |-> <<"3", " ", "0", "0">>,
   current_liabilities |-> <<"1", "5", "0">>,
   liabilities         |-> <<"8", "0", "0">>,
   employees           |-> <<"1", "2", ".", "0">>,
   unit                |-> <<"1", "0", "0", "0">>,
   company_name        |-> <<" ", "A", "c", "m", "a", " ">>,
   industry            |-> <<"a", "b", "c">>,
   year                |-> <<"2", "0", "2", "4">>]

Malformed == <<"a", "b", "c">>

UnitTexts ==
  {<<"1">>, <<"1", "0", "0", "0", "0", "0", "0">>, <<"1", ",", "0", "0", "0">>,
   <<"7">>, << >>, Malformed}

\* BaseForm with one field left out, malformed, empty, zero, negative or
\* fractional, with another unit, or with a ratio supplied by the form
PipelineForms ==
  {BaseForm}
  \cup {Without(BaseForm, k) : k \in MoneyNames \cup {"employees", "unit"}}
  \cup {With(BaseForm, k, Malformed) : k \in MoneyNames \cup {"employees", "year"}}
  \cup {With(BaseForm, "unit", t) : t \in UnitTexts}
  \cup {With(BaseForm, "sales", << >>),
        With(BaseForm, "net_income", <<"-", "2", "0">>),
        With(BaseForm, "equity", <<" ", "-", "5">>),
        With(BaseForm, "current_liabilities", <<"0">>),
        With(BaseForm, "total_assets", <<"0", ".", "5">>),
        With(BaseForm, "employees", <<"0">>),
        With(BaseForm, "employees", <<"-", "1", ".", "5">>),
        With(BaseForm, "employees", <<"-", "0", ".", "5">>),
        With(BaseForm, "roe", <<"9">>)}

\* every pipeline form, also in base units, in millions, and with a
\* headcount of zero or three
CalcForms ==
  PipelineForms
  \cup {With(f, "unit", t) : f \in PipelineForms, t \in {<<"1">>, <<"1", "0", "0", "0", "0", "0", "0">>}}
  \cup {With(f, "employees", t) : f \in PipelineForms, t \in {<<"0">>, <<"3">>}}

\* the mappings both normalisers hand to calc
NormalizedInputs ==
  {Restrict(v.val, MoneyNames \cup {"employees"}) :
     v \in {w \in {index_values(f) : f \in CalcForms} \cup {edit_values(f) : f \in CalcForms} : w.ok}}

\* a valid form, a second valid form that also supplies ratios, a form with
\* a malformed magnitude
SmallForms ==
  {BaseForm,
   With(With(With(BaseForm, "sales", <<"4">>), "roe", <<"9">>), "productivity", <<"7">>),
   With(BaseForm, "sales", Malformed)}

\* a valid form and a form with a malformed magnitude
MainForms == {BaseForm, With(BaseForm, "sales", Malformed)}

ContentForms == {[content |-> <<" ", "a">>], [content |-> <<"b">>], [content |-> <<" ">>]}

\* index_values and edit_values of every form a behaviour submits, computed
\* once
AllForms == PipelineForms \cup SmallForms

IndexValues == [f \in AllForms |-> index_values(f)]

EditValues == [f \in AllForms |-> edit_values(f)]

(***************************************************************************)
(* The store: the three tables of init_db                                  *)
(***************************************************************************)
Clients == {"c1", "c2"}

Idle == [op |-> "idle"]

NoForm == << >>

IntegrityError == [ok |-> FALSE, err |-> "IntegrityError"]

generate_password_hash(p) == <<"hash", p>>

check_password_hash(h, p) == h = generate_password_hash(p)

\* SELECT ... FROM users WHERE username=?
select_user(tbl, u) == {r \in tbl : r.username = u}

\* an INSERT that replaces the row of a username already present
insert_user_or_replace(tbl, u, h) ==
  Ok({r \in tbl : r.username # u} \cup {[username |-> u, password |-> h]})

\* INSERT INTO users: username is the PRIMARY KEY
insert_user(tbl, u, h) ==
  IF select_user(tbl, u) # {} THEN IntegrityError
  ELSE Ok(tbl \cup {[username |-> u, password |-> h]})

\* the ownership test without the user_id condition
own_financial_any_user(fin, id, u) == id \in DOMAIN fin

\* SELECT ... FROM financials WHERE id=? AND user_id=? finds a row
own_financial(fin, id, u) == id \in DOMAIN fin /\ fin[id].user_id = u

\* INSERT INTO financials: id is AUTOINCREMENT and no row is ever deleted
insert_financial(fin, cols, u) == Append(fin, cols @@ [user_id |-> u])

\* the row rewritten by REPLACE INTO, which leaves user_id NULL
update_financial_by_replace(fin, id, u, cols) ==
  [i \in DOMAIN fin |->
     IF i = id /\ fin[i].user_id = u THEN cols @@ [user_id |-> "NULL"] ELSE fin[i]]

\* UPDATE financials SET ... WHERE id=? AND user_id=?
update_financial(fin, id, u, cols) ==
  [i \in DOMAIN fin |->
     IF i = id /\ fin[i].user_id = u THEN cols @@ [user_id |-> fin[i].user_id] ELSE fin[i]]

\* SELECT financial_id FROM comments WHERE id=? AND user_id=?
own_comment(com, id, u) == {r \in com : r.id = id /\ r.user_id = u}

\* the ids of the rows of user u, as the read-only pages select them
own_rows(fin, u) == {i \in DOMAIN fin : fin[i].user_id = u}

LoggedIn(c) == "user_id" \in DOMAIN session[c]

Request(op, c, method, id, f) == [op |-> op, c |-> c, method |-> method, id |-> id, form |-> f]

Status(s) == [status |-> s]

Init ==
  /\ users = {}
  /\ session = [c \in Clients |-> << >>]
  /\ financials = << >>
  /\ comments = {}
  /\ comment_seq = 0
  /\ pc = [c \in Clients |-> Idle]
  /\ req = Request("none", "c1", "GET", 0, NoForm)
  /\ resp = Status("none")
  /\ calc_in = None
  /\ calc_out = [state |-> "pending"]

(***************************************************************************)
(* Auth                                                                    *)
(***************************************************************************)
\* register, POST, the whole handler in one step
register(c, f) ==
  /\ pc[c] = Idle
  /\ req' = Request("register", c, "POST", 0, f)
  /\ IF select_user(users, f.username) # {}
     THEN resp' = Status("200 exists") /\ users' = users
     ELSE LET r == insert_user(users, f.username, generate_password_hash(f.password))
          IN  IF r.ok THEN users' = r.val /\ resp' = Status("302 login")
              ELSE users' = users /\ resp' = Status("500")
  /\ UNCHANGED <<session, financials, comments, comment_seq, pc, calc_in, calc_out>>

\* register, POST, up to the existence check
register_select(c, f) ==
  /\ pc[c] = Idle
  /\ IF select_user(users, f.username) # {}
     THEN /\ req' = Request("register", c, "POST", 0, f)
          /\ resp' = Status("200 exists")
          /\ pc' = pc
     ELSE /\ pc' = [pc EXCEPT ![c] = [op |-> "register", form |-> f]]
          /\ UNCHANGED <<req, resp>>
  /\ UNCHANGED <<users, session, financials, comments, comment_seq, calc_in, calc_out>>

\* register, POST, from the INSERT on
register_insert(c) ==
  /\ pc[c].op = "register"
  /\ LET f == pc[c].form
         r == insert_user(users, f.username, generate_password_hash(f.password))
     IN  /\ req' = Request("register", c, "POST", 0, f)
         /\ IF r.ok THEN users' = r.val /\ resp' = Status("302 login")
            ELSE users' = users /\ resp' = Status("500")
  /\ pc' = [pc EXCEPT ![c] = Idle]
  /\ UNCHANGED <<session, financials, comments, comment_seq, calc_in, calc_out>>

\* login, POST
login(c, f) ==
  /\ pc[c] = Idle
  /\ req' = Request("login", c, "POST", 0, f)
  /\ IF \E r \in select_user(users, f.username) : check_password_hash(r.password, f.password)
     THEN /\ session' = [session EXCEPT ![c] = [user_id |-> f.username]]
          /\ resp' = Status("302 index")
     ELSE resp' = Status("200 failed") /\ session' = session
  /\ UNCHANGED <<users, financials, comments, comment_seq, pc, calc_in, calc_out>>

logout(c) ==
  /\ pc[c] = Idle
  /\ req' = Request("logout", c, "GET", 0, NoForm)
  /\ session' = [session EXCEPT ![c] = << >>]
  /\ resp' = Status("302 login")
  /\ UNCHANGED <<users, financials, comments, comment_seq, pc, calc_in, calc_out>>

(***************************************************************************)
(* Main input and edit                                                     *)
(***************************************************************************)
\* cap bounds the number of rows a behaviour inserts
index(c, method, f, cap) ==
  /\ pc[c] = Idle
  /\ req' = Request("index", c, method, 0, f)
  /\ IF ~LoggedIn(c) THEN resp' = Status("302 login") /\ financials' = financials
     ELSE IF method = "GET" THEN resp' = Status("200") /\ financials' = financials
     ELSE LET v == IndexValues[f]
          IN  IF ~v.ok THEN resp' = Status("500") /\ financials' = financials
              ELSE /\ Len(financials) < cap
                   /\ financials' = insert_financial(financials, v.val, session[c].user_id)
                   /\ resp' = Status("302 view_data")
  /\ UNCHANGED <<users, session, comments, comment_seq, pc, calc_in, calc_out>>

\* edit_data, the whole handler in one step
edit_data(c, id, method, f) ==
  /\ pc[c] = Idle
  /\ req' = Request("edit_data", c, method, id, f)
  /\ IF ~LoggedIn(c) THEN resp' = Status("302 login") /\ financials' = financials
     ELSE IF ~own_financial(financials, id, session[c].user_id)
          THEN resp' = Status("404") /\ financials' = financials
     ELSE IF method = "GET"
          THEN /\ resp' = [status |-> "200",
                           rows |-> {r.id : r \in {r \in comments : r.financial_id = id
                                                      /\ r.user_id = session[c].user_id}}]
               /\ financials' = financials
     ELSE LET v == EditValues[f]
          IN  IF ~v.ok THEN resp' = Status("500") /\ financials' = financials
              ELSE /\ financials' = update_financial(financials, id, session[c].user_id, v.val)
                   /\ resp' = Status("302 edit_data")
  /\ UNCHANGED <<users, session, comments, comment_seq, pc, calc_in, calc_out>>

\* edit_data, POST, up to the UPDATE: the session check, the ownership
\* SELECT and the parsing of the form
edit_data_select(c, id, f) ==
  /\ pc[c] = Idle
  /\ IF ~LoggedIn(c) \/ ~own_financial(financials, id, session[c].user_id) \/ ~EditValues[f].ok
     THEN /\ req' = Request("edit_data", c, "POST", id, f)
          /\ resp' = Status(IF ~LoggedIn(c) THEN "302 login"
                            ELSE IF ~own_financial(financials, id, session[c].user_id) THEN "404"
                            ELSE "500")
          /\ pc' = pc
     ELSE /\ pc' = [pc EXCEPT ![c] = [op |-> "edit_data", id |-> id, form |-> f,
                                      user_id |-> session[c].user_id]]
          /\ UNCHANGED <<req, resp>>
  /\ UNCHANGED <<users, session, financials, comments, comment_seq, calc_in, calc_out>>

\* edit_data, POST, the UPDATE and the commit
edit_data_update(c) ==
  /\ pc[c].op = "edit_data"
  /\ req' = Request("edit_data", c, "POST", pc[c].id, pc[c].form)
  /\ financials' = update_financial(financials, pc[c].id, pc[c].user_id, EditValues[pc[c].form].val)
  /\ resp' = Status("302 edit_data")
  /\ pc' = [pc EXCEPT ![c] = Idle]
  /\ UNCHANGED <<users, session, comments, comment_seq, calc_in, calc_out>>

(***************************************************************************)
(* Comments                                                                *)
(***************************************************************************)
\* cap bounds the number of comments a behaviour inserts
add_comment(c, id, f, cap) ==
  /\ pc[c] = Idle
  /\ req' = Request("add_comment", c, "POST", id, f)
  /\ IF ~LoggedIn(c) THEN resp' = Status("302 login") /\ UNCHANGED <<comments, comment_seq>>
     ELSE IF ~own_financial(financials, id, session[c].user_id)
          THEN resp' = Status("404") /\ UNCHANGED <<comments, comment_seq>>
     ELSE IF strip(get(f, "content", << >>)) = << >>
          THEN resp' = Status("302 edit_data") /\ UNCHANGED <<comments, comment_seq>>
     ELSE /\ comment_seq < cap
          /\ comment_seq' = comment_seq + 1
          /\ comments' = comments \cup {[id |-> comment_seq + 1, financial_id |-> id,
                                         user_id |-> session[c].user_id,
                                         content |-> strip(get(f, "content", << >>))]}
          /\ resp' = Status("302 edit_data")
  /\ UNCHANGED <<users, session, financials, pc, calc_in, calc_out>>

edit_comment(c, id, f) ==
  /\ pc[c] = Idle
  /\ req' = Request("edit_comment", c, "POST", id, f)
  /\ IF ~LoggedIn(c) THEN resp' = Status("302 login") /\ comments' = comments
     ELSE IF own_comment(comments, id, session[c].user_id) = {}
          THEN resp' = Status("404") /\ comments' = comments
     ELSE IF strip(get(f, "content", << >>)) = << >>
          THEN resp' = Status("302 edit_data") /\ comments' = comments
     ELSE /\ comments' = {IF r \in own_comment(comments, id, session[c].user_id)
                          THEN [r EXCEPT !.content = strip(get(f, "content", << >>))]
                          ELSE r : r \in comments}
          /\ resp' = Status("302 edit_data")
  /\ UNCHANGED <<users, session, financials, comment_seq, pc, calc_in, calc_out>>

delete_comment(c, id) ==
  /\ pc[c] = Idle
  /\ req' = Request("delete_comment", c, "POST", id, NoForm)
  /\ IF ~LoggedIn(c) THEN resp' = Status("302 login") /\ comments' = comments
     ELSE IF own_comment(comments, id, session[c].user_id) = {}
          THEN resp' = Status("404") /\ comments' = comments
     ELSE /\ comments' = comments \ own_comment(comments, id, session[c].user_id)
          /\ resp' = Status("302 edit_data")
  /\ UNCHANGED <<users, session, financials, comment_seq, pc, calc_in, calc_out>>

(***************************************************************************)
(* The read-only pages: each answers with the caller's own rows            *)
(***************************************************************************)
ReadOnly(op, c, answer) ==
  /\ pc[c] = Idle
  /\ req' = Request(op, c, "GET", 0, NoForm)
  /\ resp' = answer
  /\ UNCHANGED <<users, session, financials, comments, comment_seq, pc, calc_in, calc_out>>

\* no company_name or industry filter in the query string
view_data(c) ==
  ReadOnly("view_data", c,
           IF ~LoggedIn(c) THEN Status("302 login")
           ELSE [status |-> "200", rows |-> own_rows(financials, session[c].user_id)])

download_excel(c) ==
  ReadOnly("download_excel", c,
           IF ~LoggedIn(c) THEN Status("302 login")
           ELSE [status |-> "200", rows |-> own_rows(financials, session[c].user_id)])

graph_view(c) ==
  ReadOnly("graph_view", c,
           IF ~LoggedIn(c) THEN Status("302 login")
           ELSE [status |-> "200", rows |-> own_rows(financials, session[c].user_id)])

\* the caller's distinct non-empty industries, an empty list without a session
industry_list(c) ==
  ReadOnly("industry_list", c,
           IF ~LoggedIn(c) THEN [status |-> "200", rows |-> {}]
           ELSE [status |-> "200",
                 rows |-> {financials[i].industry : i \in own_rows(financials, session[c].user_id)}
                          \ {<< >>}])

\* the caller's distinct company names; no query text, so every name matches
get_companies(c) ==
  ReadOnly("get_companies", c,
           IF ~LoggedIn(c) THEN [status |-> "200", rows |-> {}]
           ELSE [status |-> "200",
                 rows |-> {financials[i].company_name : i \in own_rows(financials, session[c].user_id)}])

(***************************************************************************)
(* Spec: every handler, each run to completion, two users                  *)
(***************************************************************************)
MaxRecords == 1

MaxComments == 1

RecordIds == 1..MaxRecords

CommentIds == 1..MaxComments

Next ==
  \E c \in {"c1"} :
    \/ \E f \in AuthForms({"pw1"}) : register(c, f)
    \/ \E f \in AuthForms(Passwords) : login(c, f)
    \/ logout(c)
    \/ index(c, "GET", NoForm, MaxRecords)
    \/ \E f \in MainForms : index(c, "POST", f, MaxRecords)
    \/ \E id \in RecordIds : edit_data(c, id, "GET", NoForm)
    \/ \E id \in RecordIds, f \in MainForms : edit_data(c, id, "POST", f)
    \/ \E id \in RecordIds, f \in ContentForms : add_comment(c, id, f, MaxComments)
    \/ \E id \in CommentIds, f \in ContentForms : edit_comment(c, id, f)
    \/ \E id \in CommentIds : delete_comment(c, id)
    \/ view_data(c)
    \/ download_excel(c)
    \/ graph_view(c)
    \/ industry_list(c)
    \/ get_companies(c)

Spec == Init /\ [][Next]_vars

(***************************************************************************)
(* SpecPipeline: one user, the create and edit flows over PipelineForms    *)
(***************************************************************************)
NextPipeline ==
  \/ register("c1", [username |-> "alice", password |-> "pw1"])
  \/ login("c1", [username |-> "alice", password |-> "pw1"])
  \/ \E f \in PipelineForms : index("c1", "POST", f, MaxRecords)
  \/ \E id \in 1..MaxRecords, f \in PipelineForms : edit_data("c1", id, "POST", f)

SpecPipeline == Init /\ [][NextPipeline]_vars

(***************************************************************************)
(* SpecConcurrent: two requests in flight, edit_data interleaved at its    *)
(* SQL statements                                                          *)
(***************************************************************************)
NextConcurrent ==
  \E c \in Clients :
    \/ \E u \in Usernames : register(c, [username |-> u, password |-> "pw1"])
    \/ \E u \in Usernames : login(c, [username |-> u, password |-> "pw1"])
    \/ \E f \in SmallForms : index(c, "POST", f, MaxRecords)
    \/ \E id \in RecordIds, f \in SmallForms : edit_data_select(c, id, f)
    \/ edit_data_update(c)

SpecConcurrent == Init /\ [][NextConcurrent]_vars

(***************************************************************************)
(* SpecAuth: two requests in flight, register interleaved at its SQL       *)
(* statements                                                              *)
(***************************************************************************)
NextAuth ==
  \E c \in Clients :
    \/ \E f \in AuthForms(Passwords) : register_select(c, f)
    \/ register_insert(c)
    \/ \E f \in AuthForms(Passwords) : login(c, f)
    \/ logout(c)

SpecAuth == Init /\ [][NextAuth]_vars

(***************************************************************************)
(* SpecCalc: calc applied to a normalised input                            *)
(***************************************************************************)
InitCalc ==
  /\ users = {}
  /\ session = [c \in Clients |-> << >>]
  /\ financials = << >>
  /\ comments = {}
  /\ comment_seq = 0
  /\ pc = [c \in Clients |-> Idle]
  /\ req = Request("none", "c1", "GET", 0, NoForm)
  /\ resp = Status("none")
  /\ calc_in \in NormalizedInputs
  /\ calc_out = [state |-> "pending"]

apply_calc ==
  /\ calc_out.state = "pending"
  /\ calc_out' = [state |-> "returned", val |-> calc(calc_in)]
  /\ UNCHANGED <<users, session, financials, comments, comment_seq, pc, req, resp, calc_in>>

NextCalc == apply_calc

SpecCalc == InitCalc /\ [][NextCalc]_vars

(***************************************************************************)
(* Properties                                                              *)
(***************************************************************************)
InputNames == MoneyNames \cup {"employees"}

\* the reference table of the six ratios
RatioTable ==
  {[ratio |-> "gross_profit_margin", num |-> "gross_profit",   den |-> "sales"],
   [ratio |-> "roe",                 num |-> "net_income",     den |-> "equity"],
   [ratio |-> "current_ratio",       num |-> "current_assets", den |-> "current_liabilities"],
   [ratio |-> "debt_ratio",          num |-> "liabilities",    den |-> "total_assets"],
   [ratio |-> "sales_per_employee",  num |-> "sales",          den |-> "employees"],
   [ratio |-> "productivity",        num |-> "net_income",     den |-> "employees"]}

\* field k of a normalised input as a float
AsFloat(d, k) == IF k = "employees" THEN FromInt(d[k]) ELSE d[k]

\* C1: in every reachable state, under any interleaving of create and edit
\* requests, concurrent edits of one record included, the six derived values
\* of every persisted record equal calc of that record's own stored
\* magnitudes and employees; ratios supplied by a form are not stored.
C1_DerivedAreCalcOfStored ==
  \A i \in DOMAIN financials :
    Restrict(financials[i], DerivedNames) = calc(Restrict(financials[i], InputNames))

\* C1: an edit that supplied its own roe has been committed while another
\* edit of the same record is still in flight, and the stored roe is not the
\* supplied one
C1_Witness ==
  /\ req.op = "edit_data" /\ resp.status = "302 edit_data"
  /\ \E c \in Clients \ {req.c} : pc[c].op = "edit_data" /\ pc[c].id = req.id /\ pc[c].form # req.form
  /\ "roe" \in DOMAIN req.form
  /\ financials[req.id]["roe"] # _to_float(req.form["roe"]).val

\* C2: for every normalised input calc returns all six ratios without error;
\* each is numerator / denominator of the reference table when the
\* denominator is non-zero (ratio * denominator = numerator) and exactly 0
\* when the denominator is 0.
C2_CalcMatchesReferenceTable ==
  calc_out.state = "returned" =>
    /\ DOMAIN calc_out.val = DerivedNames
    /\ \A t \in RatioTable :
         LET r   == calc_out.val[t.ratio]
             num == AsFloat(calc_in, t.num)
             den == AsFloat(calc_in, t.den)
         IN  /\ r # ZeroDivisionError
             /\ den[1] = 0 => r = Zero
             /\ den[1] # 0 => Mul(r, den) = num

\* C2: calc has returned for an input with no employees and no equity but
\* with sales and net income
C2_Witness ==
  /\ calc_out.state = "returned"
  /\ calc_in["employees"] = 0 /\ Truthy(calc_in["sales"])
  /\ calc_out.val["sales_per_employee"] = Zero /\ calc_out.val["productivity"] = Zero
  /\ calc_out.val["gross_profit_margin"] = <<1, 4>>

\* C6: a financial record, once created, is in every later state with the
\* same id and the same owning user, whatever operation runs.
C6_RecordsKeepIdAndOwner ==
  [][\A i \in DOMAIN financials :
       i \in DOMAIN financials' /\ financials'[i].user_id = financials[i].user_id]_vars

\* C6: a record has been edited, commented on, and the comment deleted, and
\* the record is still there
C6_Witness ==
  /\ req.op = "delete_comment" /\ resp.status = "302 edit_data"
  /\ comment_seq > 0 /\ comments = {}
  /\ financials # << >> /\ financials[1].user_id = session[req.c].user_id
  /\ financials[1]["sales"] = <<1000, 1>>

\* C10: under any interleaving of register requests the users table holds at
\* most one row per username, and a row once inserted is never replaced or
\* removed, so the password of a username never changes.
C10_OneRowPerUsernameKept ==
  [][/\ \A r \in users : r \in users'
     /\ \A r1, r2 \in users' : r1.username = r2.username => r1 = r2]_vars

\* C10: a register request that passed the existence check lost the race:
\* its INSERT failed and the row of the winner, with another password, stays
C10_Witness ==
  /\ req.op = "register" /\ resp.status = "500"
  /\ \E r \in users : /\ r.username = req.form.username
                      /\ r.password # generate_password_hash(req.form.password)

\* field k of form f is absent, empty once cleaned, or a decimal literal
CleanNumeric(f, k) == k \notin DOMAIN f \/ clean(f[k]) = << >> \/ float(clean(f[k])).ok

\* the unit field is supplied and its value is 1, 1000 or 1000000
UnitIsOneOf(f) ==
  /\ "unit" \in DOMAIN f
  /\ clean(f["unit"]) # << >>
  /\ float(clean(f["unit"])).ok
  /\ float(clean(f["unit"])).val \in UNITS

\* the request just answered was a create-record submission made in a session
Created == req.op = "index" /\ req.method = "POST" /\ LoggedIn(req.c)

\* the row the last INSERT added
LastRow == financials[Len(financials)]

\* C3: a create-record submission whose unit is 1, 1000 or 1000000 and whose
\* magnitudes and employees are absent, empty or numeric persists (given a
\* session and a readable year) a record with every magnitude equal to its
\* cleaned value times the unit and employees equal to its cleaned integer,
\* unscaled.
C3_CreateScalesMagnitudesOnly ==
  (Created /\ UnitIsOneOf(req.form) /\ \A k \in InputNames : CleanNumeric(req.form, k)) =>
    /\ CleanNumeric(req.form, "year") => resp.status = "302 view_data"
    /\ resp.status = "302 view_data" =>
         /\ \A k \in MoneyNames :
              LastRow[k] = Mul(_to_float(get(req.form, k, None)).val, _to_float(req.form["unit"]).val)
         /\ LastRow["employees"] = _to_int(get(req.form, "employees", None)).val
         /\ LastRow.user_id = session[req.c].user_id

\* C3: the base form has been created in millions: sales 1,000 is stored as
\* 1,000,000,000 and employees 12.0 as 12
C3_Witness ==
  /\ Created /\ resp.status = "302 view_data"
  /\ req.form = With(BaseForm, "unit", <<"1", "0", "0", "0", "0", "0", "0">>)
  /\ LastRow["sales"] = <<1000000000, 1>>
  /\ LastRow["employees"] = 12

\* C4: a create-record submission with any other unit, missing, empty or
\* malformed, is never an error: the record is persisted with every
\* magnitude equal to its cleaned value times 1.
C4_AnyOtherUnitFallsBackToOne ==
  (/\ Created /\ ~UnitIsOneOf(req.form)
   /\ \A k \in InputNames \cup {"year"} : CleanNumeric(req.form, k)) =>
    /\ resp.status = "302 view_data"
    /\ \A k \in MoneyNames : LastRow[k] = _to_float(get(req.form, k, None)).val

\* the forms with a magnitude that is non-empty and non-numeric once cleaned
MalformedForms == {f \in AllForms : \E k \in MoneyNames : ~CleanNumeric(f, k)}

\* C7: a create or edit request with a malformed magnitude changes nothing
\* in the store, and, once it reaches the parsing (a session, and for an
\* edit a record of the caller), ends in an unrecovered failure.
C7_MalformedMagnitudeFailsAndWritesNothing ==
  [][(req'.op \in {"index", "edit_data"} /\ req'.method = "POST" /\ req'.form \in MalformedForms) =>
       /\ UNCHANGED <<users, financials, comments, comment_seq>>
       /\ (/\ LoggedIn(req'.c)
           /\ req'.op = "edit_data" => own_financial(financials, req'.id, session[req'.c].user_id))
          => resp'.status = "500"]_vars

\* C7: an edit with a malformed magnitude has failed on a record of the
\* caller, which is still stored
C7_Witness ==
  /\ req.op = "edit_data" /\ req.method = "POST" /\ req.form \in MalformedForms
  /\ resp.status = "500"
  /\ own_financial(financials, req.id, session[req.c].user_id)

\* C8: an edit by the owner persists every magnitude as its cleaned value
\* with no multiplier, whatever the unit field; the create flow stores the
\* same text unit times larger.
C8_EditIgnoresUnit ==
  /\ (/\ req.op = "edit_data" /\ req.method = "POST" /\ LoggedIn(req.c)
      /\ own_financial(financials, req.id, session[req.c].user_id)
      /\ \A k \in InputNames \cup {"year"} : CleanNumeric(req.form, k))
     => resp.status = "302 edit_data"
  /\ (req.op = "edit_data" /\ req.method = "POST" /\ resp.status = "302 edit_data") =>
    /\ \A k \in MoneyNames : financials[req.id][k] = _to_float(get(req.form, k, None)).val
    /\ financials[req.id]["employees"] = _to_int(get(req.form, "employees", None)).val
    /\ IndexValues[req.form].ok =>
         \A k \in MoneyNames :
           IndexValues[req.form].val[k] = Mul(financials[req.id][k], unit_of(req.form).val)

\* C8: the base form, unit 1000, has been submitted as an edit: sales is
\* stored as 1,000 where the create flow stores 1,000,000
C8_Witness ==
  /\ req.op = "edit_data" /\ req.method = "POST" /\ resp.status = "302 edit_data"
  /\ req.form = BaseForm
  /\ financials[req.id]["sales"] = <<1000, 1>>
  /\ IndexValues[req.form].val["sales"] = <<1000000, 1>>

\* the text of a field carries a minus sign in front of a non-zero figure
NegativeText(t) ==
  LET u == SelectSeq(t, LAMBDA x : x \notin Whitespace \cup {",", FullWidthComma})
  IN  u # << >> /\ u[1] = "-" /\ \E i \in 1..Len(u) : u[i] \in Digits \ {"0"}

NegativeFields == [f \in AllForms |-> {k \in InputNames \cap DOMAIN f : NegativeText(f[k])}]

Foreign(c, owner) == ~LoggedIn(c) \/ owner # session[c].user_id

\* C5: a request changes no financial record and no comment of another user
\* than its session's; an edit-record or add-comment request on another
\* user's record, and an edit- or delete-comment request on another user's
\* comment, ends in not-found (a login redirect without a session) and
\* leaves the store unchanged.
C5_OtherUsersDataUntouched ==
  [][LET c == req'.c
     IN  /\ \A i \in DOMAIN financials :
               Foreign(c, financials[i].user_id) =>
                 i \in DOMAIN financials' /\ financials'[i] = financials[i]
         /\ \A r \in comments : Foreign(c, r.user_id) => r \in comments'
         /\ (\/ /\ req'.op \in {"edit_data", "add_comment"}
                /\ req'.id \in DOMAIN financials
                /\ Foreign(c, financials[req'.id].user_id)
             \/ /\ req'.op \in {"edit_comment", "delete_comment"}
                /\ \E r \in comments : r.id = req'.id /\ Foreign(c, r.user_id))
            => /\ resp'.status = IF LoggedIn(c) THEN "404" ELSE "302 login"
               /\ UNCHANGED <<users, financials, comments, comment_seq>>]_vars

\* C5: a logged-in user has asked to delete another user's comment on
\* another user's record and got not-found; both are still stored
C5_Witness ==
  /\ req.op = "delete_comment" /\ resp.status = "404"
  /\ LoggedIn(req.c)
  /\ \E r \in comments : /\ r.id = req.id
                         /\ r.user_id # session[req.c].user_id
                         /\ financials[r.financial_id].user_id = r.user_id

====
